---- MODULE Spec2Model ----
(***************************************************************************)
(* Ephemeral messages of deltachat-core-rust (src/src/ephemeral.rs): the   *)
(* per-chat timer store, the local expiry sweep, the start of per-message  *)
(* timers, the wake-up task slot and the selection of IMAP deletion jobs.  *)
(* Every handler is cut at its await points: a store statement, the lock   *)
(* on the task slot, a spawn.                                              *)
(***************************************************************************)
EXTENDS Integers, Sequences, FiniteSets, Bags, TLC

VARIABLES
    msgs,                 \* msgs table: id -> row
    now,                  \* the wall clock, in seconds (time(), SystemTime::now())
    delete_device_after,  \* config value, NoneV when not configured
    delete_server_after,  \* config value, NoneV when not configured
    pc,                   \* per caller: the await point it is suspended at
    loc,                  \* per caller: the local variables of the running handler
    ops,                  \* number of handler calls started so far
    ephemeral_task,       \* context.ephemeral_task: NoTask (None) or the task behind the handle
    detached,             \* tasks whose handle was dropped: a bag of their deadlines
    events,               \* MsgsChanged events emitted so far
    jobs,                 \* jobs table, action DeleteMsgOnImap: foreign_id -> number of rows
    chats,                \* per device: chats.ephemeral_timer column, by chat id
    net,                  \* messages sent and not yet received
    hist                  \* what the properties need of the past: the last timer set and the
                          \* last call, the sweeps returned or failed, the wake-ups emitted
                          \* and cancelled, the input of a pure function

vars == <<msgs, now, delete_device_after, delete_server_after, pc, loc, ops,
          ephemeral_task, detached, events, jobs, chats, net, hist>>

-----------------------------------------------------------------------------
(* Bounds of the model *)

NumMsgs == 2
NumProcs == 2
MaxNow == 4
MaxOps == 3
MaxCalls == 2
MaxDuration == 2
MaxSent == 3

(* Program constants *)

DC_CHAT_ID_TRASH == 3
DC_CHAT_ID_LAST_SPECIAL == 9
DefaultChatId == 0

NoneV == -1

MsgIds == 1..NumMsgs
Procs == 1..NumProcs

(* Chats of the test data: the self-chat, the device-chat and a normal chat. *)
SelfChatId == DC_CHAT_ID_LAST_SPECIAL + 1
DeviceChatId == DC_CHAT_ID_LAST_SPECIAL + 2
NormalChatId == DC_CHAT_ID_LAST_SPECIAL + 3

(* A chat id with no row in the chats table (a chat deleted meanwhile). *)
MissingChatId == DC_CHAT_ID_LAST_SPECIAL + 4

-----------------------------------------------------------------------------
(* Timer value model *)

Disabled == [tag |-> "Disabled", duration |-> 0]
Enabled(d) == [tag |-> "Enabled", duration |-> d]

to_u32(t) == IF t.tag = "Disabled" THEN 0 ELSE t.duration

(* A from_u32 without its test for 0. *)
from_u32_enabled(n) == Enabled(n)

from_u32(n) == IF n = 0 THEN Disabled ELSE Enabled(n)

-----------------------------------------------------------------------------
(* Message rows *)

NotStartedStates == {"InFresh", "InNoticed", "OutDraft"}

NewMsg(chat, timer, st, uid, ets) ==
    [chat_id |-> chat, ephemeral_timer |-> timer, ephemeral_timestamp |-> ets,
     timestamp |-> 1, server_uid |-> uid, state |-> st,
     txt |-> "hi", subject |-> "subj", txt_raw |-> "raw", mime_headers |-> "hdr",
     from_id |-> 1, to_id |-> 2, param |-> "p"]

PayloadCleared(r) ==
    /\ r.txt = "" /\ r.subject = "" /\ r.txt_raw = "" /\ r.mime_headers = ""
    /\ r.param = "" /\ r.from_id = 0 /\ r.to_id = 0

(* u32::try_from(i64): the columns of the model stay far below 2^32, so the
   only values out of range are the negative ones. *)
FitsU32(n) == n >= 0

(* MsgId::ephemeral_timer: the msgs.ephemeral_timer column as a Timer, or an
   error when the column does not fit u32. *)
MsgTimer(r) ==
    IF r.ephemeral_timer = 0 THEN [ok |-> TRUE, timer |-> Disabled]
    ELSE IF FitsU32(r.ephemeral_timer)
         THEN [ok |-> TRUE, timer |-> Enabled(r.ephemeral_timer)]
         ELSE [ok |-> FALSE, timer |-> Disabled]

(* A start_ephemeral_timer whose UPDATE lost its WHERE clause on the stored
   timestamp. *)
StartAcceptsAlways(old, new) == TRUE

(* The WHERE clause of start_ephemeral_timer's UPDATE. *)
StartAccepts(old, new) == old = 0 \/ old > new

(* Pass A of delete_expired_messages: its WHERE clause and its SET list. *)
PassAMatches(r, t) ==
    /\ r.ephemeral_timestamp # 0
    /\ r.ephemeral_timestamp <= t
    /\ r.chat_id # DC_CHAT_ID_TRASH

(* A pass A that moves the row to the trash chat and forgets the sender. *)
PassASetKeepsSender(r) ==
    [r EXCEPT !.chat_id = DC_CHAT_ID_TRASH, !.txt = "", !.subject = "",
              !.txt_raw = "", !.mime_headers = "", !.to_id = 0, !.param = ""]

(* A pass A that also resets the timer of the row it redacts. *)
PassASetResetsTimer(r) ==
    [r EXCEPT !.chat_id = DC_CHAT_ID_TRASH, !.txt = "", !.subject = "",
              !.txt_raw = "", !.mime_headers = "", !.from_id = 0, !.to_id = 0,
              !.param = "", !.ephemeral_timestamp = 0]

PassASet(r) ==
    [r EXCEPT !.chat_id = DC_CHAT_ID_TRASH, !.txt = "", !.subject = "",
              !.txt_raw = "", !.mime_headers = "", !.from_id = 0, !.to_id = 0,
              !.param = ""]

(* A delete_expired_messages that forgets what pass B did. *)
SweepResultPassAOnly(a, b) == a

(* updated |= rows_modified > 0 *)
SweepResult(a, b) == a \/ b

(* A pass B whose WHERE clause lost its test against LAST_SPECIAL. *)
PassBMatchesSpecial(r, threshold, self_chat_id, device_chat_id) ==
    /\ r.timestamp < threshold
    /\ r.chat_id # self_chat_id
    /\ r.chat_id # device_chat_id

(* Pass B of delete_expired_messages: its WHERE clause and its SET list. *)
PassBMatches(r, threshold, self_chat_id, device_chat_id) ==
    /\ r.timestamp < threshold
    /\ r.chat_id > DC_CHAT_ID_LAST_SPECIAL
    /\ r.chat_id # self_chat_id
    /\ r.chat_id # device_chat_id

PassBSet(r) == [r EXCEPT !.txt = "DELETED", !.chat_id = DC_CHAT_ID_TRASH]

(* A start_ephemeral_timers whose UPDATE lost its clause on the state. *)
HousekeepingMatchesAnyState(r) ==
    /\ r.ephemeral_timer > 0
    /\ r.ephemeral_timestamp = 0

(* The WHERE clause of start_ephemeral_timers' UPDATE. *)
HousekeepingMatches(r) ==
    /\ r.ephemeral_timer > 0
    /\ r.ephemeral_timestamp = 0
    /\ r.state \notin NotStartedStates

(* The rows schedule_ephemeral_task's SELECT ranges over, and its result. *)
LiveTimestamps(ms) ==
    {ms[m].ephemeral_timestamp : m \in {x \in MsgIds :
        ms[x].ephemeral_timestamp # 0 /\ ms[x].chat_id # DC_CHAT_ID_TRASH}}

SetMin(S) == CHOOSE x \in S : \A y \in S : x <= y

NextEphemeralTimestamp(ms) ==
    IF LiveTimestamps(ms) = {} THEN NoneV ELSE SetMin(LiveTimestamps(ms))

-----------------------------------------------------------------------------
(* Callers and tasks *)

(* A task spawned by schedule_ephemeral_task: it sleeps until `until`, then
   emits MsgsChanged. NoTask is the empty slot. *)
NoTask == [status |-> "none", until |-> 0]
Sleeping(until) == [status |-> "sleeping", until |-> until]
DoneTask == [status |-> "done", until |-> 0]

NoLoc == [op |-> "none", msg |-> 0, dl |-> 0, minTs |-> NoneV, task |-> NoTask,
          updated |-> FALSE, modified |-> FALSE, tripped |-> {}, self_chat_id |-> 0,
          device_chat_id |-> 0, threshold |-> 0, now |-> 0, ret |-> NoneV]

Return(p) ==
    /\ pc' = [pc EXCEPT ![p] = "idle"]
    /\ loc' = [loc EXCEPT ![p] = NoLoc]

(* What the store has seen of delete_expired_messages calls. `steady`: the
   callers whose running call has seen no clock advance and no write of
   another call since its pass A. `clean`: a call has returned steady, and the
   clock has not advanced and no row was written since. `quiet`: the callers
   whose running call began in a clean moment and is steady. `woken`: the
   clock value of the latest MsgsChanged event, 0 when there was none.
   `owed`: the deadline of a task that was cancelled after its sleep had
   elapsed, for a message that was live, with no MsgsChanged event emitted
   since; 0 when there is none. `failed`: a call has returned a store error
   after its pass A. *)
NoSweep == [clean |-> FALSE, steady |-> {}, quiet |-> {}, woken |-> 0, owed |-> 0,
            failed |-> FALSE]

Disturbed(h, changed) ==
    IF changed THEN [h EXCEPT !.clean = FALSE, !.steady = {}, !.quiet = {}] ELSE h

SweepBegun(h, p, changed) ==
    IF changed THEN [h EXCEPT !.clean = FALSE, !.steady = {p}, !.quiet = {}]
    ELSE [h EXCEPT !.steady = @ \cup {p},
                   !.quiet = IF h.clean THEN @ \cup {p} ELSE @ \ {p}]

SweepWrote(h, p, changed) ==
    IF changed THEN [h EXCEPT !.clean = FALSE, !.steady = @ \cap {p}, !.quiet = {}]
    ELSE h

Completed(h, p, op) ==
    IF op = "sweep"
    THEN [h EXCEPT !.clean = (@ \/ p \in h.steady), !.steady = @ \ {p},
                   !.quiet = @ \ {p}]
    ELSE h

Failed(h, p) == [h EXCEPT !.steady = @ \ {p}, !.quiet = @ \ {p}, !.failed = TRUE]

Woken(h, t) == [h EXCEPT !.woken = t, !.owed = 0]

(* The messages a task with deadline `until` was armed for and that are still
   live: the rows schedule_ephemeral_task's SELECT would still return. *)
ArmedFor(ms, until) ==
    {m \in MsgIds : /\ ms[m].ephemeral_timestamp # 0
                    /\ ms[m].ephemeral_timestamp + 1 = until
                    /\ ms[m].chat_id # DC_CHAT_ID_TRASH}

(* JoinHandle::cancel on the task `task` taken from the slot at clock t: a task
   whose sleep is over and that has not emitted yet never emits. *)
Cancelled(h, task, ms, t) ==
    IF task.status = "sleeping" /\ t >= task.until /\ ArmedFor(ms, task.until) # {}
    THEN [h EXCEPT !.owed = task.until]
    ELSE h

(* The number of tasks that are neither cancelled nor finished. *)
ArmedCount ==
    (IF ephemeral_task.status = "sleeping" THEN 1 ELSE 0)
    + Cardinality({p \in Procs : loc[p].task.status = "sleeping"})
    + BagCardinality(detached)

-----------------------------------------------------------------------------
(* Initial states of the expiry engine *)

InitIdle ==
    /\ pc = [p \in Procs |-> "idle"]
    /\ loc = [p \in Procs |-> NoLoc]
    /\ ops = 0
    /\ ephemeral_task = NoTask
    /\ detached = EmptyBag
    /\ events = {}

InitNoJobs == jobs = [m \in MsgIds |-> 0]

InitNoNet ==
    /\ chats = << >>
    /\ net = {}
    /\ hist = NoSweep

(* The rows the store may hold when the program starts: message 1 is a seen
   message of a normal chat whose timer may already run, the others are seen or
   fresh messages of any chat, or noticed messages and drafts of a normal chat
   with a timer. *)
InitRows(m) ==
    IF m = 1
    THEN {NewMsg(NormalChatId, 2, "InSeen", 1, e) : e \in {0, 3}}
    ELSE {NewMsg(c, t, s, 1, 0) :
            c \in {NormalChatId, SelfChatId, DeviceChatId}, t \in {0, 1},
            s \in {"InFresh", "InSeen"}}
         \cup {NewMsg(NormalChatId, 1, s, 1, 0) : s \in {"InNoticed", "OutDraft"}}

InitEph ==
    /\ msgs \in {f \in [MsgIds -> UNION {InitRows(m) : m \in MsgIds}] :
                    \A m \in MsgIds : f[m] \in InitRows(m)}
    /\ now = 1
    /\ delete_device_after \in {NoneV, 1}
    /\ delete_server_after = NoneV
    /\ InitIdle
    /\ InitNoJobs
    /\ InitNoNet

-----------------------------------------------------------------------------
(* MsgId::start_ephemeral_timer *)

StartRead(p, m) ==
    /\ pc[p] = "idle"
    /\ ops < MaxCalls
    /\ ops' = ops + 1
    /\ LET t == MsgTimer(msgs[m]) IN
       IF t.ok /\ t.timer.tag = "Enabled"
       THEN /\ pc' = [pc EXCEPT ![p] = "start_update"]
            /\ loc' = [loc EXCEPT ![p] = [NoLoc EXCEPT !.op = "start", !.msg = m,
                                            !.dl = now + t.timer.duration]]
       ELSE UNCHANGED <<pc, loc>>
    /\ UNCHANGED <<msgs, now, delete_device_after, delete_server_after,
                   ephemeral_task, detached, events, jobs, chats, net, hist>>

StartUpdate(p) ==
    /\ pc[p] = "start_update"
    /\ LET m == loc[p].msg
           new == loc[p].dl IN
       msgs' = IF StartAccepts(msgs[m].ephemeral_timestamp, new)
               THEN [msgs EXCEPT ![m].ephemeral_timestamp = new]
               ELSE msgs
    /\ pc' = [pc EXCEPT ![p] = "sched_query"]
    /\ hist' = Disturbed(hist, msgs' # msgs)
    /\ UNCHANGED <<now, delete_device_after, delete_server_after, loc, ops,
                   ephemeral_task, detached, events, jobs, chats, net>>

-----------------------------------------------------------------------------
(* delete_expired_messages *)

SweepPassA(p) ==
    /\ pc[p] = "idle"
    /\ ops < MaxCalls
    /\ ops' = ops + 1
    /\ LET hit == {m \in MsgIds : PassAMatches(msgs[m], now)} IN
       /\ msgs' = [m \in MsgIds |-> IF m \in hit THEN PassASet(msgs[m]) ELSE msgs[m]]
       /\ loc' = [loc EXCEPT ![p] = [NoLoc EXCEPT !.op = "sweep",
                                       !.updated = (hit # {}), !.tripped = hit,
                                       !.modified = (msgs' # msgs)]]
    /\ pc' = [pc EXCEPT ![p] = "sweep_config"]
    /\ hist' = SweepBegun(hist, p, msgs' # msgs)
    /\ UNCHANGED <<now, delete_device_after, delete_server_after,
                   ephemeral_task, detached, events, jobs, chats, net>>

(* lookup_by_contact_id(..).unwrap_or_default().0: the chat of the contact, or
   the default chat id when the lookup fails. *)
LookupOutcomes(chat) == {chat, DefaultChatId}

SweepConfig(p) ==
    /\ pc[p] = "sweep_config"
    /\ IF delete_device_after = NoneV
       THEN /\ pc' = [pc EXCEPT ![p] = "sched_query"]
            /\ UNCHANGED loc
       ELSE /\ pc' = [pc EXCEPT ![p] = "sweep_passB"]
            /\ \E s \in LookupOutcomes(SelfChatId), d \in LookupOutcomes(DeviceChatId) :
                 loc' = [loc EXCEPT ![p].self_chat_id = s, ![p].device_chat_id = d,
                                    ![p].threshold = now - delete_device_after]
    /\ UNCHANGED <<msgs, now, delete_device_after, delete_server_after, ops,
                   ephemeral_task, detached, events, jobs, chats, net, hist>>

SweepPassB(p) ==
    /\ pc[p] = "sweep_passB"
    /\ LET hit == {m \in MsgIds : PassBMatches(msgs[m], loc[p].threshold,
                                     loc[p].self_chat_id, loc[p].device_chat_id)} IN
       /\ msgs' = [m \in MsgIds |-> IF m \in hit THEN PassBSet(msgs[m]) ELSE msgs[m]]
       /\ loc' = [loc EXCEPT ![p].updated = SweepResult(loc[p].updated, hit # {}),
                              ![p].modified = (loc[p].modified \/ msgs' # msgs)]
    /\ pc' = [pc EXCEPT ![p] = "sched_query"]
    /\ hist' = SweepWrote(hist, p, msgs' # msgs)
    /\ UNCHANGED <<now, delete_device_after, delete_server_after, ops,
                   ephemeral_task, detached, events, jobs, chats, net>>

(* A store that undoes pass A when a later statement of the call fails. *)
StoreErrorRollsBack(ms, hit) ==
    [m \in MsgIds |-> IF m \in hit THEN [ms[m] EXCEPT !.chat_id = NormalChatId] ELSE ms[m]]

(* The msgs table once a statement after pass A has failed and `?` has
   returned the error: each execute commits on its own, the failed statement
   wrote nothing and the rows `hit` of pass A stay as pass A left them. *)
StoreError(ms, hit) == ms

(* get_config_delete_device_after().await? returns the store's error: the call
   ends there, before pass B and before schedule_ephemeral_task. *)
SweepConfigFail(p) ==
    /\ pc[p] = "sweep_config"
    /\ msgs' = StoreError(msgs, loc[p].tripped)
    /\ Return(p)
    /\ hist' = Failed(hist, p)
    /\ UNCHANGED <<now, delete_device_after, delete_server_after, ops,
                   ephemeral_task, detached, events, jobs, chats, net>>

(* The UPDATE of pass B fails (.context("deleted update failed")?): the call
   ends there, before schedule_ephemeral_task. *)
SweepPassBFail(p) ==
    /\ pc[p] = "sweep_passB"
    /\ msgs' = StoreError(msgs, loc[p].tripped)
    /\ Return(p)
    /\ hist' = Failed(hist, p)
    /\ UNCHANGED <<now, delete_device_after, delete_server_after, ops,
                   ephemeral_task, detached, events, jobs, chats, net>>

-----------------------------------------------------------------------------
(* start_ephemeral_timers (housekeeping) *)

Housekeeping(p) ==
    /\ pc[p] = "idle"
    /\ ops < MaxCalls
    /\ ops' = ops + 1
    /\ msgs' = [m \in MsgIds |->
                  IF HousekeepingMatches(msgs[m])
                  THEN [msgs[m] EXCEPT !.ephemeral_timestamp = now + msgs[m].ephemeral_timer]
                  ELSE msgs[m]]
    /\ hist' = Disturbed(hist, msgs' # msgs)
    /\ UNCHANGED <<now, delete_device_after, delete_server_after, pc, loc,
                   ephemeral_task, detached, events, jobs, chats, net>>

-----------------------------------------------------------------------------
(* schedule_ephemeral_task *)

ScheduleCall(p) ==
    /\ pc[p] = "idle"
    /\ ops < MaxCalls
    /\ ops' = ops + 1
    /\ pc' = [pc EXCEPT ![p] = "sched_query"]
    /\ loc' = [loc EXCEPT ![p] = [NoLoc EXCEPT !.op = "schedule"]]
    /\ UNCHANGED <<msgs, now, delete_device_after, delete_server_after,
                   ephemeral_task, detached, events, jobs, chats, net, hist>>

SchedQuery(p) ==
    /\ pc[p] = "sched_query"
    /\ loc' = [loc EXCEPT ![p].minTs = NextEphemeralTimestamp(msgs)]
    /\ pc' = [pc EXCEPT ![p] = "sched_take"]
    /\ UNCHANGED <<msgs, now, delete_device_after, delete_server_after, ops,
                   ephemeral_task, detached, events, jobs, chats, net, hist>>

(* context.ephemeral_task.write().await.take(), then JoinHandle::cancel on what
   was taken: the slot is left empty and the task it held never emits. *)
SchedTake(p) ==
    /\ pc[p] = "sched_take"
    /\ ephemeral_task' = NoTask
    /\ IF loc[p].minTs = NoneV
       THEN /\ Return(p)
            /\ hist' = Cancelled(Completed(hist, p, loc[p].op), ephemeral_task, msgs, now)
       ELSE /\ pc' = [pc EXCEPT ![p] = "sched_spawn"]
            /\ hist' = Cancelled(hist, ephemeral_task, msgs, now)
            /\ UNCHANGED loc
    /\ UNCHANGED <<msgs, now, delete_device_after, delete_server_after, ops,
                   detached, events, jobs, chats, net>>

(* A comparison that takes a deadline equal to the clock for a past one. *)
InFutureStrict(until, t) == until > t

(* until.duration_since(now) is Ok exactly when until >= now. *)
InFuture(until, t) == until >= t

MsgsChanged(src, op) == [src |-> src, op |-> op]

SchedSpawn(p) ==
    /\ pc[p] = "sched_spawn"
    /\ LET until == loc[p].minTs + 1 IN
       IF InFuture(until, now)
       THEN /\ loc' = [loc EXCEPT ![p].task = Sleeping(until)]
            /\ pc' = [pc EXCEPT ![p] = "sched_store"]
            /\ UNCHANGED <<events, hist>>
       ELSE /\ events' = events \cup {MsgsChanged("schedule", loc[p].op)}
            /\ Return(p)
            /\ hist' = Woken(Completed(hist, p, loc[p].op), now)
    /\ UNCHANGED <<msgs, now, delete_device_after, delete_server_after, ops,
                   ephemeral_task, detached, jobs, chats, net>>

(* Dropping a JoinHandle detaches its task: a task still sleeping keeps running
   with no handle left to cancel it. *)
DropHandle(old, bag) ==
    IF old.status = "sleeping" THEN bag (+) SetToBag({old.until}) ELSE bag

(* *context.ephemeral_task.write().await = Some(ephemeral_task) *)
SchedStore(p) ==
    /\ pc[p] = "sched_store"
    /\ ephemeral_task' = loc[p].task
    /\ detached' = DropHandle(ephemeral_task, detached)
    /\ Return(p)
    /\ hist' = Completed(hist, p, loc[p].op)
    /\ UNCHANGED <<msgs, now, delete_device_after, delete_server_after, ops,
                   events, jobs, chats, net>>

(* The spawned task: sleep(duration), then emit MsgsChanged. It runs whether
   its handle is in the slot, still in the hands of the caller that spawned it,
   or dropped. *)
TaskDue(t) == t.status = "sleeping" /\ now >= t.until

TaskFireSlot ==
    /\ TaskDue(ephemeral_task)
    /\ ephemeral_task' = DoneTask
    /\ events' = events \cup {MsgsChanged("task", "none")}
    /\ hist' = Woken(hist, now)
    /\ UNCHANGED <<msgs, now, delete_device_after, delete_server_after, pc, loc, ops,
                   detached, jobs, chats, net>>

TaskFireHeld(p) ==
    /\ TaskDue(loc[p].task)
    /\ loc' = [loc EXCEPT ![p].task = DoneTask]
    /\ events' = events \cup {MsgsChanged("task", "none")}
    /\ hist' = Woken(hist, now)
    /\ UNCHANGED <<msgs, now, delete_device_after, delete_server_after, pc, ops,
                   ephemeral_task, detached, jobs, chats, net>>

TaskFireDetached(u) ==
    /\ BagIn(u, detached)
    /\ now >= u
    /\ detached' = detached (-) SetToBag({u})
    /\ events' = events \cup {MsgsChanged("task", "none")}
    /\ hist' = Woken(hist, now)
    /\ UNCHANGED <<msgs, now, delete_device_after, delete_server_after, pc, loc, ops,
                   ephemeral_task, jobs, chats, net>>

Tick ==
    /\ now < MaxNow
    /\ now' = now + 1
    /\ hist' = Disturbed(hist, TRUE)
    /\ UNCHANGED <<msgs, delete_device_after, delete_server_after, pc, loc, ops,
                   ephemeral_task, detached, events, jobs, chats, net>>

NextEph ==
    \/ \E p \in Procs, m \in MsgIds : StartRead(p, m)
    \/ \E p \in Procs : StartUpdate(p)
    \/ \E p \in Procs : SweepPassA(p)
    \/ \E p \in Procs : SweepConfig(p)
    \/ \E p \in Procs : SweepPassB(p)
    \/ \E p \in Procs : SweepConfigFail(p)
    \/ \E p \in Procs : SweepPassBFail(p)
    \/ \E p \in Procs : Housekeeping(p)
    \/ \E p \in Procs : ScheduleCall(p)
    \/ \E p \in Procs : SchedQuery(p)
    \/ \E p \in Procs : SchedTake(p)
    \/ \E p \in Procs : SchedSpawn(p)
    \/ \E p \in Procs : SchedStore(p)
    \/ TaskFireSlot
    \/ \E p \in Procs : TaskFireHeld(p)
    \/ \E u \in BagToSet(detached) : TaskFireDetached(u)
    \/ Tick

Spec == InitEph /\ [][NextEph]_vars

-----------------------------------------------------------------------------
(* Properties of the expiry engine and of the wake-up task, under Spec *)

AllIdle == \A p \in Procs : pc[p] = "idle"

(* Every task that can still emit: the one in the slot, the ones just spawned
   and not yet stored, the detached ones. *)
ArmedDeadlines ==
    (IF ephemeral_task.status = "sleeping" THEN {ephemeral_task.until} ELSE {})
    \cup {loc[p].task.until : p \in {q \in Procs : loc[q].task.status = "sleeping"}}
    \cup BagToSet(detached)

\* C1: under every interleaving of schedule_ephemeral_task calls at most one
\* wake-up task that is neither cancelled nor finished exists, and no task
\* keeps running after its handle was overwritten in the slot.
C1_AtMostOneArmedTask ==
    /\ ArmedCount <= 1
    /\ detached = EmptyBag

\* C2: whenever no operation is in progress and a wake-up task is armed, its
\* deadline is one second after the smallest ephemeral_timestamp of the rows
\* with a nonzero timestamp outside the trash chat.
C2_ArmedDeadlineIsMinimum ==
    (AllIdle /\ ArmedDeadlines # {}) =>
        /\ LiveTimestamps(msgs) # {}
        /\ \A u \in ArmedDeadlines : u = SetMin(LiveTimestamps(msgs)) + 1

\* C5: every row of the trash chat has all payload columns empty or zero,
\* whichever pass of delete_expired_messages moved it there.
C5_TrashRowsAreCleared ==
    \A m \in MsgIds : msgs[m].chat_id = DC_CHAT_ID_TRASH => PayloadCleared(msgs[m])

\* C6: from pass A to the return of a delete_expired_messages call, every
\* message that met the pass-A condition in that call is in the trash chat with
\* empty txt, txt_raw and mime_headers and with from_id = 0 and to_id = 0.
C6_PassAErasesPayload ==
    \A p \in Procs : loc[p].op = "sweep" =>
        \A m \in loc[p].tripped :
            /\ msgs[m].chat_id = DC_CHAT_ID_TRASH
            /\ msgs[m].txt = "" /\ msgs[m].txt_raw = "" /\ msgs[m].mime_headers = ""
            /\ msgs[m].from_id = 0 /\ msgs[m].to_id = 0

\* A sweep with delete_device_after configured has run pass A on an expired
\* message and pass B after it, and is about to reschedule.
C6_Witness ==
    \E p \in Procs :
        /\ loc[p].op = "sweep" /\ pc[p] = "sched_query"
        /\ delete_device_after # NoneV
        /\ loc[p].tripped # {}

\* C7: pass B of delete_expired_messages never modifies a row of the self-chat
\* or of the device-chat, also when the lookup of either chat id failed.
C7_PassBSparesSelfAndDevice ==
    [][\A p \in Procs :
          (pc[p] = "sweep_passB" /\ pc'[p] # "sweep_passB") =>
              \A m \in MsgIds :
                  msgs[m].chat_id \in {SelfChatId, DeviceChatId} => msgs'[m] = msgs[m]]_vars

\* C8: no step increases a nonzero ephemeral_timestamp or resets it to 0, and
\* the UPDATE of start_ephemeral_timer writes now + duration only over a stored
\* 0 or over a strictly greater stored value.
C8_StartIsMonotoneEarlier ==
    [][/\ \A m \in MsgIds :
            msgs[m].ephemeral_timestamp # 0 =>
                /\ msgs'[m].ephemeral_timestamp # 0
                /\ msgs'[m].ephemeral_timestamp <= msgs[m].ephemeral_timestamp
       /\ \A p \in Procs :
            (pc[p] = "start_update" /\ pc'[p] # "start_update") =>
                LET old == msgs[loc[p].msg].ephemeral_timestamp
                    new == msgs'[loc[p].msg].ephemeral_timestamp IN
                new # old => (new = loc[p].dl /\ (old = 0 \/ old > new))]_vars

\* A repeated start_ephemeral_timer found an earlier nonzero timestamp stored
\* and left it.
C8_Witness ==
    \E p \in Procs :
        /\ loc[p].op = "start" /\ pc[p] = "sched_query"
        /\ msgs[loc[p].msg].ephemeral_timestamp # 0
        /\ msgs[loc[p].msg].ephemeral_timestamp < loc[p].dl

-----------------------------------------------------------------------------
(* load_imap_deletion_msgid, its callers and the job executor *)

(* A selection that lost its anti-join on the jobs table. *)
JobQueuedNever(js, m) == FALSE

(* id IN (SELECT foreign_id FROM jobs WHERE action = DeleteMsgOnImap) *)
JobQueued(js, m) == js[m] > 0

(* A threshold that takes a missing delete_server_after for a delay of 0. *)
ServerThresholdNow(t, after) == IF after = NoneV THEN t ELSE t - after

(* None => 0, Some(delete_server_after) => now - delete_server_after *)
ServerThreshold(t, after) == IF after = NoneV THEN 0 ELSE t - after

(* A selection that lost its clause on server_uid. *)
DeletionCandidateAnyUid(r, threshold, t) ==
    \/ r.timestamp < threshold
    \/ (r.ephemeral_timestamp # 0 /\ r.ephemeral_timestamp <= t)

(* A selection that takes every started timer for an expired one. *)
DeletionCandidateStarted(r, threshold, t) ==
    /\ \/ r.timestamp < threshold
       \/ r.ephemeral_timestamp # 0
    /\ r.server_uid # 0

DeletionCandidate(r, threshold, t) ==
    /\ \/ r.timestamp < threshold
       \/ (r.ephemeral_timestamp # 0 /\ r.ephemeral_timestamp <= t)
    /\ r.server_uid # 0

LoadCandidates(ms, js, threshold, t) ==
    {m \in MsgIds : DeletionCandidate(ms[m], threshold, t) /\ ~JobQueued(js, m)}

(* The rows the store may hold: live rows whose timer is not started, has
   expired or is still running, and rows already redacted by pass A. *)
InitJobRows ==
    {NewMsg(NormalChatId, 2, "InSeen", u, e) : u \in {0, 1}, e \in {0, 1, 3}}
    \cup {PassASet(NewMsg(NormalChatId, 2, "InSeen", u, 1)) : u \in {0, 1}}

InitJobs ==
    /\ msgs \in [MsgIds -> InitJobRows]
    /\ now = 1
    /\ delete_device_after = NoneV
    /\ delete_server_after \in {NoneV, 1}
    /\ InitIdle
    /\ InitNoJobs
    /\ InitNoNet

LoadStart(p) ==
    /\ pc[p] = "idle"
    /\ ops < MaxOps
    /\ ops' = ops + 1
    /\ pc' = [pc EXCEPT ![p] = "load_query"]
    /\ loc' = [loc EXCEPT ![p] = [NoLoc EXCEPT !.op = "load", !.now = now,
                  !.threshold = ServerThreshold(now, delete_server_after)]]
    /\ UNCHANGED <<msgs, now, delete_device_after, delete_server_after,
                   ephemeral_task, detached, events, jobs, chats, net, hist>>

(* fetch_optional with LIMIT 1 and no ORDER BY: any one of the matching rows. *)
LoadQuery(p) ==
    /\ pc[p] = "load_query"
    /\ LET found == LoadCandidates(msgs, jobs, loc[p].threshold, loc[p].now) IN
       IF found = {}
       THEN loc' = [loc EXCEPT ![p].ret = NoneV]
       ELSE \E m \in found : loc' = [loc EXCEPT ![p].ret = m]
    /\ pc' = [pc EXCEPT ![p] = "loaded"]
    /\ UNCHANGED <<msgs, now, delete_device_after, delete_server_after, ops,
                   ephemeral_task, detached, events, jobs, chats, net, hist>>

(* The caller got None: there is nothing to persist. *)
LoadNone(p) ==
    /\ pc[p] = "loaded"
    /\ loc[p].ret = NoneV
    /\ Return(p)
    /\ UNCHANGED <<msgs, now, delete_device_after, delete_server_after, ops,
                   ephemeral_task, detached, events, jobs, chats, net, hist>>

(* The caller persists a DeleteMsgOnImap job for the id it got (job.save). *)
SaveJob(p) ==
    /\ pc[p] = "loaded"
    /\ loc[p].ret # NoneV
    /\ jobs' = [jobs EXCEPT ![loc[p].ret] = @ + 1]
    /\ Return(p)
    /\ UNCHANGED <<msgs, now, delete_device_after, delete_server_after, ops,
                   ephemeral_task, detached, events, chats, net, hist>>

(* The job executor finishes a job and removes its row: either the server copy
   is gone (server_uid = 0) or the job gave up and the copy remains. *)
ExecuteJob(m) ==
    /\ jobs[m] > 0
    /\ jobs' = [jobs EXCEPT ![m] = @ - 1]
    /\ \E deleted \in BOOLEAN :
         msgs' = IF deleted THEN [msgs EXCEPT ![m].server_uid = 0] ELSE msgs
    /\ UNCHANGED <<now, delete_device_after, delete_server_after, pc, loc, ops,
                   ephemeral_task, detached, events, chats, net, hist>>

NextJobs ==
    \/ \E p \in Procs : LoadStart(p)
    \/ \E p \in Procs : LoadQuery(p)
    \/ \E p \in Procs : LoadNone(p)
    \/ \E p \in Procs : SaveJob(p)
    \/ \E m \in MsgIds : ExecuteJob(m)
    \/ Tick

SpecJobs == InitJobs /\ [][NextJobs]_vars

\* C3: at any moment at most one pending DeleteMsgOnImap job exists per
\* message id, for every interleaving of callers that load an id and then
\* persist a job for it, and of the executor that removes jobs.
C3_AtMostOneJobPerMessage == \A m \in MsgIds : jobs[m] <= 1

\* C4: load_imap_deletion_msgid never returns a message id while a
\* DeleteMsgOnImap job for that id is queued; it returns it again only once the
\* job row is removed.
C4_NoYieldWhileJobQueued ==
    [][\A p \in Procs :
          (pc[p] = "load_query" /\ pc'[p] = "loaded" /\ loc'[p].ret # NoneV) =>
              jobs[loc'[p].ret] = 0]_vars

\* Two calls returned the same message before a job was persisted; one caller
\* persisted it, and its next call got None although the message still has a
\* server copy and is expired, while the other caller still holds the id.
C4_Witness ==
    \E p \in Procs, q \in Procs :
        /\ p # q
        /\ pc[p] = "loaded" /\ loc[p].ret = NoneV
        /\ pc[q] = "loaded" /\ loc[q].ret # NoneV
        /\ jobs[loc[q].ret] = 1
        /\ DeletionCandidate(msgs[loc[q].ret], loc[p].threshold, loc[p].now)

(* The SELECT of a load_imap_deletion_msgid call by caller p. *)
LoadQueryStep(p) == pc[p] = "load_query" /\ pc'[p] = "loaded"

\* C26: load_imap_deletion_msgid returns Some(m) only for a message m with
\* server_uid # 0, with timestamp < now - delete_server_after or with
\* ephemeral_timestamp # 0 and ephemeral_timestamp <= now, and with no queued
\* DeleteMsgOnImap job whose foreign_id is m; it returns None if and only if
\* no message satisfies all three conditions. now is the clock value the call
\* read; the age clause is empty when delete_server_after is not configured.
C26_LoadSelectsExpiredOnServer ==
    [][\A p \in Procs : LoadQueryStep(p) =>
          LET t == loc[p].now
              Aged(m) == /\ delete_server_after # NoneV
                         /\ msgs[m].timestamp < t - delete_server_after
              Expired(m) == /\ msgs[m].ephemeral_timestamp # 0
                            /\ msgs[m].ephemeral_timestamp <= t
              Due == {m \in MsgIds : /\ msgs[m].server_uid # 0
                                     /\ Aged(m) \/ Expired(m)
                                     /\ jobs[m] = 0} IN
          /\ loc'[p].ret # NoneV => loc'[p].ret \in Due
          /\ loc'[p].ret = NoneV <=> Due = {}]_vars

\* A call has returned a message for its age alone: its timer is not started.
\* Another call has returned None while a message without server copy is
\* expired.
C26_Witness ==
    \E p \in Procs, q \in Procs :
        /\ pc[p] = "loaded" /\ loc[p].ret # NoneV
        /\ msgs[loc[p].ret].ephemeral_timestamp = 0
        /\ pc[q] = "loaded" /\ loc[q].ret = NoneV
        /\ \E m \in MsgIds : msgs[m].server_uid = 0

\* C27: when delete_server_after is not configured, load_imap_deletion_msgid
\* returns no message on account of its age: a message whose
\* ephemeral_timestamp is 0 or greater than now is never returned, however far
\* its positive timestamp lies in the past.
C27_NoAgeDeletionUnconfigured ==
    [][\A p \in Procs :
          (LoadQueryStep(p) /\ delete_server_after = NoneV /\ loc'[p].ret # NoneV) =>
              /\ msgs[loc'[p].ret].ephemeral_timestamp # 0
              /\ msgs[loc'[p].ret].ephemeral_timestamp <= loc[p].now]_vars

\* With delete_server_after not configured a call has returned None although
\* a message with a server copy and no job lies in the past; its timer is not
\* started or still running.
C27_Witness ==
    \E p \in Procs :
        /\ delete_server_after = NoneV
        /\ pc[p] = "loaded" /\ loc[p].ret = NoneV
        /\ \E m \in MsgIds :
              /\ msgs[m].server_uid # 0 /\ jobs[m] = 0
              /\ msgs[m].timestamp > 0 /\ msgs[m].timestamp < loc[p].now
              /\ msgs[m].ephemeral_timestamp = 0 \/ msgs[m].ephemeral_timestamp > loc[p].now

-----------------------------------------------------------------------------
(* The per-chat timer store and the exchange of timers between two devices *)

Devices == {"alice", "bob"}
Peer(dev) == IF dev = "alice" THEN "bob" ELSE "alice"

(* The chat ids callers pass: a special chat, the 1:1 chat of the two devices
   and a chat with no row. *)
TimerChatIds == {DC_CHAT_ID_TRASH, NormalChatId, MissingChatId}

(* The timers callers pass: what Timer::from_u32 and Timer::from_str make. *)
TimerInputs == {from_u32(n) : n \in 0..MaxDuration}

NoTimer == [tag |-> "None", duration |-> 0]

(* ChatId::is_special *)
is_special(chat) == chat <= DC_CHAT_ID_LAST_SPECIAL

(* sqlx::Encode for Timer *)
TimerEncode(t) == to_u32(t)

(* sqlx::Decode for Timer *)
TimerDecode(v) ==
    IF v = 0 THEN [ok |-> TRUE, timer |-> Disabled]
    ELSE IF FitsU32(v) THEN [ok |-> TRUE, timer |-> Enabled(v)]
         ELSE [ok |-> FALSE, timer |-> Disabled]

(* ChatId::get_ephemeral_timer on the chats table `tbl` of a device. *)
get_ephemeral_timer(tbl, chat) ==
    IF tbl[chat] = NoneV THEN [ok |-> TRUE, timer |-> Disabled]
    ELSE TimerDecode(tbl[chat])

(* An UPDATE whose two bind calls were swapped: it looks for the row whose id
   is the timer value. *)
ChatsUpdateSwapped(tbl, chat, t) ==
    IF TimerEncode(t) \in DOMAIN tbl /\ tbl[TimerEncode(t)] # NoneV
    THEN [tbl EXCEPT ![TimerEncode(t)] = chat]
    ELSE tbl

(* UPDATE chats SET ephemeral_timer=? WHERE id=? *)
ChatsUpdate(tbl, chat, t) ==
    IF tbl[chat] # NoneV THEN [tbl EXCEPT ![chat] = TimerEncode(t)] ELSE tbl

ChatEphemeralTimerModified(dev, chat, t) ==
    [dev |-> dev, chat_id |-> chat, timer |-> t]

(* An inner_set_ephemeral_timer that lost its ensure!. *)
EnsureNotSpecialSkipped(chat) == TRUE

(* ensure!(!self.is_special(), "Invalid chat ID") *)
EnsureNotSpecial(chat) == ~is_special(chat)

(* A set_ephemeral_timer that never finds the timer unchanged. *)
SameTimerNever(t, cur) == FALSE

(* timer == self.get_ephemeral_timer(context).await? *)
SameTimer(t, cur) == t = cur

(* A set_ephemeral_timer that restores the old column when send_msg fails. *)
AfterSendRollsBack(tbl, old, sent) == IF sent THEN tbl ELSE old

(* The chats table once send_msg has returned: an Err is logged and nothing
   is undone. *)
AfterSend(tbl, old, sent) == tbl

(* The last call of inner_set_ephemeral_timer or set_ephemeral_timer, when it
   was the last step: its arguments, the number of UPDATE statements it
   executed, of events it emitted and of send_msg calls it made, whether the
   send succeeded, and its result. *)
NoCall == [op |-> "none", dev |-> "none", chat |-> 0, timer |-> NoTimer,
           writes |-> 0, emitted |-> 0, submitted |-> 0, sent |-> FALSE,
           ret |-> "none"]

Call(op, dev, chat, t, writes, emitted, submitted, sent, ret) ==
    [op |-> op, dev |-> dev, chat |-> chat, timer |-> t, writes |-> writes,
     emitted |-> emitted, submitted |-> submitted, sent |-> sent, ret |-> ret]

(* What a successful inner_set_ephemeral_timer leaves: the column written, the
   event emitted; hist keeps the value for the properties. *)
InnerSetEffect(dev, chat, t, call) ==
    /\ chats' = [chats EXCEPT ![dev] = ChatsUpdate(chats[dev], chat, t)]
    /\ events' = events \cup {ChatEphemeralTimerModified(dev, chat, t)}
    /\ hist' = [hist EXCEPT !.prev[dev][chat] = hist.last[dev][chat],
                            !.last[dev][chat] = t,
                            !.call = call]

InitTimer ==
    /\ chats = [d \in Devices |-> [c \in TimerChatIds |->
                  IF c = MissingChatId THEN NoneV ELSE 0]]
    /\ net = {}
    /\ hist = [last |-> [d \in Devices |-> [c \in TimerChatIds |-> NoTimer]],
               prev |-> [d \in Devices |-> [c \in TimerChatIds |-> NoTimer]],
               sent |-> 0, call |-> NoCall]
    /\ msgs = [m \in MsgIds |-> NewMsg(NormalChatId, 0, "InFresh", 0, 0)]
    /\ now = 1
    /\ delete_device_after = NoneV
    /\ delete_server_after = NoneV
    /\ InitIdle
    /\ InitNoJobs

(* ChatId::inner_set_ephemeral_timer *)
InnerSetEphemeralTimer(dev, chat, t) ==
    /\ ops < MaxOps
    /\ ops' = ops + 1
    /\ IF ~EnsureNotSpecial(chat)
       THEN /\ hist' = [hist EXCEPT
                          !.call = Call("inner", dev, chat, t, 0, 0, 0, FALSE, "err")]
            /\ UNCHANGED <<chats, events>>
       ELSE InnerSetEffect(dev, chat, t,
                           Call("inner", dev, chat, t, 1, 1, 0, FALSE, "ok"))
    /\ UNCHANGED <<msgs, now, delete_device_after, delete_server_after, pc, loc,
                   ephemeral_task, detached, jobs, net>>

(* A message of the 1:1 chat on its way to the peer: the header carries the
   sender's chat timer. `stale` marks a message that was under way when the
   receiver enabled its timer. *)
Outgoing(dev, tbl, sys, id) ==
    [id |-> id, to |-> Peer(dev), timer |-> tbl[NormalChatId], sys |-> sys,
     stale |-> FALSE]

MarkStale(dev, msgset) ==
    {IF msg.to = dev /\ msg.timer = 0 /\ ~msg.sys
     THEN [msg EXCEPT !.stale = TRUE] ELSE msg : msg \in msgset}

(* ChatId::set_ephemeral_timer *)
SetEphemeralTimer(dev, chat, t) ==
    /\ ops < MaxOps
    /\ ops' = ops + 1
    /\ LET cur == get_ephemeral_timer(chats[dev], chat) IN
       IF ~cur.ok
       THEN /\ hist' = [hist EXCEPT
                          !.call = Call("set", dev, chat, t, 0, 0, 0, FALSE, "err")]
            /\ UNCHANGED <<chats, events, net>>
       ELSE IF SameTimer(t, cur.timer)
       THEN /\ hist' = [hist EXCEPT
                          !.call = Call("set", dev, chat, t, 0, 0, 0, FALSE, "ok")]
            /\ UNCHANGED <<chats, events, net>>
       ELSE IF ~EnsureNotSpecial(chat)
       THEN /\ hist' = [hist EXCEPT
                          !.call = Call("set", dev, chat, t, 0, 0, 0, FALSE, "err")]
            /\ UNCHANGED <<chats, events, net>>
       ELSE /\ \E sent \in BOOLEAN :
                 LET tbl == ChatsUpdate(chats[dev], chat, t)
                     inflight == IF cur.timer = Disabled /\ chat = NormalChatId
                                 THEN MarkStale(dev, net) ELSE net
                     delivered == sent /\ chat = NormalChatId /\ hist.sent < MaxSent IN
                 /\ chats' = [chats EXCEPT ![dev] = AfterSend(tbl, chats[dev], delivered)]
                 /\ events' = events \cup {ChatEphemeralTimerModified(dev, chat, t)}
                 /\ net' = IF delivered
                           THEN inflight \cup {Outgoing(dev, tbl, TRUE, hist.sent + 1)}
                           ELSE inflight
                 /\ hist' = [hist EXCEPT !.prev[dev][chat] = hist.last[dev][chat],
                                         !.last[dev][chat] = t,
                                         !.sent = IF delivered THEN @ + 1 ELSE @,
                                         !.call = Call("set", dev, chat, t, 1, 1, 1,
                                                       delivered, "ok")]
    /\ UNCHANGED <<msgs, now, delete_device_after, delete_server_after, pc, loc,
                   ephemeral_task, detached, jobs>>

(* The user sends a message in the 1:1 chat. *)
SendMsg(dev) ==
    /\ hist.sent < MaxSent
    /\ net' = net \cup {Outgoing(dev, chats[dev], FALSE, hist.sent + 1)}
    /\ hist' = [hist EXCEPT !.sent = @ + 1, !.call = NoCall]
    /\ UNCHANGED <<msgs, now, delete_device_after, delete_server_after, pc, loc, ops,
                   ephemeral_task, detached, events, jobs, chats>>

(* The ingest of a received message applies its timer to the chat. *)
RecvMsg(msg) ==
    /\ msg \in net
    /\ net' = net \ {msg}
    /\ InnerSetEffect(msg.to, NormalChatId, from_u32(msg.timer), NoCall)
    /\ UNCHANGED <<msgs, now, delete_device_after, delete_server_after, pc, loc, ops,
                   ephemeral_task, detached, jobs>>

NextTimer ==
    \/ \E d \in Devices, c \in TimerChatIds, t \in TimerInputs :
          InnerSetEphemeralTimer(d, c, t)
    \/ \E d \in Devices, c \in TimerChatIds, t \in TimerInputs :
          SetEphemeralTimer(d, c, t)
    \/ \E d \in Devices : SendMsg(d)
    \/ \E msg \in net : RecvMsg(msg)

SpecTimer == InitTimer /\ [][NextTimer]_vars

C10_StaleMessageKeepsTimer ==
    [][\A msg \in net :
          (net' = net \ {msg}) =>
              /\ msg.stale => chats'[msg.to][NormalChatId] = chats[msg.to][NormalChatId]
              /\ (msg.sys /\ msg.timer # 0) =>
                    get_ephemeral_timer(chats'[msg.to], NormalChatId)
                        = [ok |-> TRUE, timer |-> Enabled(msg.timer)]]_vars

(* A step that is a whole call of set_ephemeral_timer, of inner_set_ephemeral_timer. *)
SetCallStep == ops' = ops + 1 /\ hist'.call.op = "set"
InnerCallStep == ops' = ops + 1 /\ hist'.call.op = "inner"

SystemMessages(msgset) == {msg \in msgset : msg.sys}

\* C11: set_ephemeral_timer with the chat's current timer writes nothing,
\* emits no event and sends no message; with another timer, on a chat that is
\* not special, it executes one UPDATE (the chat's column then holds the new
\* timer), emits one ChatEphemeralTimerModified event and calls send_msg once
\* with the system message.
C11_SetIsNoOpWhenUnchanged ==
    [][SetCallStep =>
          LET c == hist'.call
              cur == get_ephemeral_timer(chats[c.dev], c.chat) IN
          /\ (cur.ok /\ c.timer = cur.timer) =>
                /\ chats' = chats /\ events' = events /\ net' = net
                /\ c.writes = 0 /\ c.emitted = 0 /\ c.submitted = 0
          /\ (cur.ok /\ c.timer # cur.timer /\ c.chat > DC_CHAT_ID_LAST_SPECIAL) =>
                /\ c.writes = 1 /\ c.emitted = 1 /\ c.submitted = 1
                /\ \A d \in Devices, ch \in TimerChatIds :
                      chats'[d][ch] = IF d = c.dev /\ ch = c.chat /\ chats[d][ch] # NoneV
                                      THEN to_u32(c.timer) ELSE chats[d][ch]
                /\ ChatEphemeralTimerModified(c.dev, c.chat, c.timer) \in events'
                /\ events' \ events \subseteq
                      {ChatEphemeralTimerModified(c.dev, c.chat, c.timer)}
                /\ Cardinality(SystemMessages(net')) =
                      Cardinality(SystemMessages(net)) + (IF c.sent THEN 1 ELSE 0)]_vars

\* A set_ephemeral_timer that found the timer it was given, an Enabled one set
\* by an earlier call, already stored.
C11_Witness ==
    /\ hist.call.op = "set" /\ hist.call.ret = "ok" /\ hist.call.writes = 0
    /\ hist.call.timer.tag = "Enabled"
    /\ hist.last[hist.call.dev][hist.call.chat] = hist.call.timer

\* C12: when set_ephemeral_timer changes the timer and send_msg fails, the call
\* returns Ok and the chat's column holds the new timer.
C12_SendFailureKeepsTimer ==
    [][(SetCallStep /\ hist'.call.submitted = 1 /\ ~hist'.call.sent) =>
          LET c == hist'.call IN
          /\ c.ret = "ok"
          /\ chats[c.dev][c.chat] # NoneV =>
                get_ephemeral_timer(chats'[c.dev], c.chat) = [ok |-> TRUE, timer |-> c.timer]]_vars

\* A set_ephemeral_timer on the 1:1 chat changed the timer and its send failed.
C12_Witness ==
    /\ hist.call.op = "set" /\ hist.call.submitted = 1 /\ ~hist.call.sent
    /\ hist.call.chat = NormalChatId
    /\ hist.call.ret = "ok"

\* C13: inner_set_ephemeral_timer on a chat id at or below LAST_SPECIAL returns
\* an error, changes no stored timer and emits no event; a set_ephemeral_timer
\* that reaches it returns that error and sends no message.
C13_SpecialChatRejected ==
    [][LET c == hist'.call
           cur == get_ephemeral_timer(chats[c.dev], c.chat) IN
       ((InnerCallStep \/ (SetCallStep /\ cur.ok /\ c.timer # cur.timer))
            /\ c.chat <= DC_CHAT_ID_LAST_SPECIAL) =>
          /\ c.ret = "err"
          /\ chats' = chats /\ events' = events /\ net' = net
          /\ c.writes = 0 /\ c.emitted = 0 /\ c.submitted = 0]_vars

\* A set_ephemeral_timer on the trash chat with a timer other than the stored
\* one returned the error.
C13_Witness ==
    /\ hist.call.op = "set" /\ hist.call.ret = "err"
    /\ hist.call.chat = DC_CHAT_ID_TRASH
    /\ hist.call.timer # Disabled

-----------------------------------------------------------------------------
(* The values of Timer at the public entry point *)

(* Every value of the enum within the bound: Timer is a public enum with a
   public field, so a caller of the public set_ephemeral_timer can build
   Enabled { duration: 0 } as the tests build their Enabled values; the callers
   of the crate-private inner_set_ephemeral_timer pass what from_str makes. *)
TimerValues == TimerInputs \cup {Enabled(0)}

NextApi ==
    \/ \E d \in Devices, c \in TimerChatIds, t \in TimerInputs :
          InnerSetEphemeralTimer(d, c, t)
    \/ \E d \in Devices, c \in TimerChatIds, t \in TimerValues :
          SetEphemeralTimer(d, c, t)

SpecApi == InitTimer /\ [][NextApi]_vars

\* C29: Enabled with duration 0 is never produced or stored: from_u32, the
\* store decode and get_ephemeral_timer give Disabled for 0, and for every
\* Timer t that set_ephemeral_timer or inner_set_ephemeral_timer accepts on a
\* chat with a row, from_u32(to_u32(t)) = t and get_ephemeral_timer returns t
\* afterwards.
C29_ZeroIsDisabled ==
    /\ [](/\ from_u32(0) = Disabled
          /\ TimerDecode(0) = [ok |-> TRUE, timer |-> Disabled]
          /\ \A d \in Devices, c \in TimerChatIds :
                get_ephemeral_timer(chats[d], c).timer # Enabled(0))
    /\ [][LET c == hist'.call IN
          ((SetCallStep \/ InnerCallStep) /\ c.ret = "ok" /\ chats[c.dev][c.chat] # NoneV) =>
              /\ from_u32(to_u32(c.timer)) = c.timer
              /\ get_ephemeral_timer(chats'[c.dev], c.chat) = [ok |-> TRUE, timer |-> c.timer]]_vars

-----------------------------------------------------------------------------
(* The result, the events and the repetition of delete_expired_messages,
   under Spec *)

(* The steps of a delete_expired_messages call by caller p: its first UPDATE,
   its second UPDATE, and any step of the call after the first. *)
PassAStep(p) == pc[p] = "idle" /\ pc'[p] = "sweep_config"
PassBStep(p) == pc[p] = "sweep_passB" /\ pc'[p] = "sched_query"
PastPasses(p) ==
    loc[p].op = "sweep" /\ pc[p] \in {"sched_query", "sched_take", "sched_spawn", "sched_store"}

\* C14: once its passes are done, the value a delete_expired_messages call
\* returns is true exactly when pass A or pass B changed at least one row
\* during the call.
C14_ReturnsWhetherModified ==
    \A p \in Procs : PastPasses(p) => (loc[p].updated <=> loc[p].modified)

\* A call whose pass A matched nothing and whose pass B moved a row is about to
\* return true.
C14_Witness ==
    \E p \in Procs :
        /\ PastPasses(p) /\ pc[p] = "sched_store"
        /\ loc[p].tripped = {} /\ loc[p].updated

\* C15: delete_expired_messages emits no MsgsChanged event during its
\* execution, its trailing schedule_ephemeral_task included.
C15_SweepNeverEmits ==
    \A e \in events : ~(e.src = "schedule" /\ e.op = "sweep")

\* C16: no delete_expired_messages step changes a row that is already in the
\* trash chat, and a call that begins after another has returned, with no
\* clock advance and no write to the store in between or during it, changes no
\* row and returns false.
C16_NoDoubleDeletion ==
    [][\A p \in Procs :
          /\ (PassAStep(p) \/ PassBStep(p)) =>
                \A m \in MsgIds :
                    msgs[m].chat_id = DC_CHAT_ID_TRASH => msgs'[m] = msgs[m]
          /\ (PassAStep(p) /\ hist.clean) =>
                (msgs' = msgs /\ ~loc'[p].updated)
          /\ (PassBStep(p) /\ p \in hist.quiet) =>
                (msgs' = msgs /\ ~loc'[p].updated)]_vars

\* C20: a delete_expired_messages call changes a row only if the row meets
\* the pass-A condition at the clock value of pass A, or delete_device_after is
\* configured and the row is older than now - delete_device_after, in a chat
\* above LAST_SPECIAL that is neither the self-chat nor the device-chat; pass B
\* does not run when delete_device_after is not configured.
C20_SweepRedactsOnlyExpired ==
    [][\A p \in Procs :
          /\ PassAStep(p) =>
                \A m \in MsgIds : msgs'[m] # msgs[m] =>
                    /\ msgs[m].ephemeral_timestamp # 0
                    /\ msgs[m].ephemeral_timestamp <= now
                    /\ msgs[m].chat_id # DC_CHAT_ID_TRASH
          /\ PassBStep(p) =>
                /\ delete_device_after # NoneV
                /\ \A m \in MsgIds : msgs'[m] # msgs[m] =>
                    /\ msgs[m].timestamp < now - delete_device_after
                    /\ msgs[m].chat_id > DC_CHAT_ID_LAST_SPECIAL
                    /\ msgs[m].chat_id \notin {SelfChatId, DeviceChatId}]_vars

-----------------------------------------------------------------------------
(* The branches of schedule_ephemeral_task, under Spec *)

(* The steps of a schedule_ephemeral_task call by caller p, alone or at the
   end of another handler: the take of the slot, the comparison of the
   deadline with the clock, the store of the handle. *)
TakeStep(p) == pc[p] = "sched_take" /\ pc'[p] # "sched_take"
SpawnStep(p) == pc[p] = "sched_spawn" /\ pc'[p] # "sched_spawn"
StoreStep(p) == pc[p] = "sched_store" /\ pc'[p] # "sched_store"

(* What the call of caller p does from the take of the slot on, `immediate`
   telling whether the deadline read from the store counts as passed. *)
RescheduleOutcome(p, immediate) ==
    /\ TakeStep(p) =>
          /\ ephemeral_task' = NoTask
          /\ events' = events /\ hist'.woken = hist.woken
          /\ pc'[p] = IF loc[p].minTs = NoneV THEN "idle" ELSE "sched_spawn"
    /\ SpawnStep(p) =>
          IF immediate
          THEN /\ MsgsChanged("schedule", loc[p].op) \in events'
               /\ hist'.woken = now
               /\ ephemeral_task' = ephemeral_task
               /\ pc'[p] = "idle" /\ loc'[p].task = NoTask
          ELSE /\ events' = events /\ hist'.woken = hist.woken
               /\ loc'[p].task = Sleeping(loc[p].minTs + 1)
               /\ pc'[p] = "sched_store"
    /\ StoreStep(p) =>
          /\ ephemeral_task' = loc[p].task
          /\ events' = events /\ hist'.woken = hist.woken
          /\ pc'[p] = "idle"

\* C21 as stated: in schedule_ephemeral_task, with a live row of minimum
\* timestamp min_ts and deadline = min_ts + 1: if deadline <= now, MsgsChanged
\* is emitted at once and the slot is left empty; if deadline > now a task is
\* spawned and its handle stored in the slot; with no such row the slot is left
\* empty and nothing is emitted.
C21_EmitsWhenDeadlineReached ==
    [][\A p \in Procs : RescheduleOutcome(p, loc[p].minTs + 1 <= now)]_vars

\* C21 as amended: the event is emitted at once and the slot left empty only
\* if deadline < now; if deadline >= now, the clock equal to the deadline
\* included, a task is spawned and its handle stored in the slot; with no live
\* row the slot is left empty and nothing is emitted.
C21_EmitsWhenDeadlinePassed ==
    [][\A p \in Procs : RescheduleOutcome(p, loc[p].minTs + 1 < now)]_vars

\* A call found the deadline equal to the clock and holds the task it spawned
\* for it, about to store the handle.
C21_Witness ==
    \E p \in Procs :
        /\ pc[p] = "sched_store"
        /\ loc[p].task = Sleeping(now)
        /\ loc[p].minTs + 1 = now

-----------------------------------------------------------------------------
(* Store errors in delete_expired_messages, under Spec *)

(* The step at which the call of caller p returns a store error after its
   pass A: from the read of delete_device_after or from pass B. *)
FailStep(p) == pc[p] \in {"sweep_config", "sweep_passB"} /\ pc'[p] = "idle"

\* C23: when pass A has succeeded and the read of delete_device_after or pass
\* B fails with a store error, the call returns the failure, the rows pass A
\* redacted stay redacted, and the pass B of a later successful call moves to
\* the trash chat every row that satisfies the pass-B condition then.
C23_PassASurvivesLaterFailure ==
    [][\A p \in Procs :
          /\ FailStep(p) =>
                /\ hist'.failed /\ loc'[p] = NoLoc
                /\ msgs' = msgs
                /\ \A m \in loc[p].tripped :
                      msgs'[m].chat_id = DC_CHAT_ID_TRASH /\ PayloadCleared(msgs'[m])
          /\ (PassBStep(p) /\ hist.failed) =>
                \A m \in MsgIds :
                    PassBMatches(msgs[m], loc[p].threshold, SelfChatId, DeviceChatId)
                        => msgs'[m] = PassBSet(msgs[m])]_vars

\* After a call failed behind its pass A, a later call whose pass A matched
\* nothing has moved a row in its pass B.
C23_Witness ==
    \E p \in Procs :
        /\ hist.failed
        /\ PastPasses(p) /\ loc[p].tripped = {} /\ loc[p].updated
        /\ \E m \in MsgIds : msgs[m].chat_id = DC_CHAT_ID_TRASH /\ PayloadCleared(msgs[m])

-----------------------------------------------------------------------------
(* The frame of start_ephemeral_timers, under Spec *)

(* A step that is a whole call of start_ephemeral_timers. *)
HousekeepingStep == \E p \in Procs : Housekeeping(p)

\* C25: start_ephemeral_timers at clock value now sets ephemeral_timestamp to
\* now + ephemeral_timer for exactly the rows with ephemeral_timer > 0,
\* ephemeral_timestamp = 0 and a state other than InFresh, InNoticed and
\* OutDraft; it changes no other row and no other column: unseen messages and
\* drafts do not start counting down and an armed timestamp stays as it is.
C25_HousekeepingArmsOnlySeen ==
    [][HousekeepingStep =>
          \A m \in MsgIds :
              /\ msgs'[m] =
                    IF /\ msgs[m].ephemeral_timer > 0
                       /\ msgs[m].ephemeral_timestamp = 0
                       /\ msgs[m].state \notin {"InFresh", "InNoticed", "OutDraft"}
                    THEN [msgs[m] EXCEPT !.ephemeral_timestamp = now + msgs[m].ephemeral_timer]
                    ELSE msgs[m]
              /\ msgs[m].state \in {"InFresh", "InNoticed", "OutDraft"} =>
                    msgs'[m].ephemeral_timestamp = msgs[m].ephemeral_timestamp
              /\ msgs[m].ephemeral_timestamp # 0 =>
                    msgs'[m].ephemeral_timestamp = msgs[m].ephemeral_timestamp]_vars

\* start_ephemeral_timers has armed a seen message at the present clock value,
\* past the first second, and left an unseen message or a draft with a timer
\* unarmed; no schedule_ephemeral_task has run.
C25_Witness ==
    /\ AllIdle /\ ephemeral_task = NoTask /\ events = {} /\ now > 1
    /\ \E m \in MsgIds :
          /\ msgs[m].state = "InSeen"
          /\ msgs[m].ephemeral_timestamp = now + msgs[m].ephemeral_timer
    /\ \E m \in MsgIds :
          /\ msgs[m].state \in NotStartedStates
          /\ msgs[m].ephemeral_timer > 0
          /\ msgs[m].ephemeral_timestamp = 0

-----------------------------------------------------------------------------
(* Rows of the trash chat, under Spec *)

PayloadColumns(r) ==
    <<r.txt, r.subject, r.txt_raw, r.mime_headers, r.from_id, r.to_id, r.param>>

\* C30: once a row is in the trash chat, no step of delete_expired_messages,
\* start_ephemeral_timer, start_ephemeral_timers or schedule_ephemeral_task
\* gives it another chat_id or changes a payload column; pass B never writes
\* 'DELETED' over the txt of a row pass A has redacted.
C30_TrashIsFinal ==
    [][\A m \in MsgIds :
          msgs[m].chat_id = DC_CHAT_ID_TRASH =>
              /\ msgs'[m].chat_id = DC_CHAT_ID_TRASH
              /\ PayloadColumns(msgs'[m]) = PayloadColumns(msgs[m])
              /\ msgs[m].txt = "" => msgs'[m].txt # "DELETED"]_vars

\* A call with delete_device_after configured is past its pass B; a row that
\* an earlier call's pass A had redacted, older than the threshold, is in the
\* trash chat with its txt empty.
C30_Witness ==
    \E p \in Procs, m \in MsgIds :
        /\ PastPasses(p) /\ delete_device_after # NoneV
        /\ m \notin loc[p].tripped
        /\ msgs[m].chat_id = DC_CHAT_ID_TRASH /\ msgs[m].txt = ""
        /\ msgs[m].timestamp < loc[p].threshold

-----------------------------------------------------------------------------
(* The wake-up of the UI, under fair scheduling *)

(* A call in progress runs to its end: the executor resumes a future whose
   await is ready. Nothing obliges a caller to begin a call. *)
Resume(p) ==
    \/ StartUpdate(p) \/ SweepConfig(p) \/ SweepPassB(p)
    \/ SchedQuery(p) \/ SchedTake(p) \/ SchedSpawn(p) \/ SchedStore(p)

(* The clock advances, a spawned task whose sleep is over runs. *)
Fairness ==
    /\ WF_vars(Tick)
    /\ WF_vars(TaskFireSlot)
    /\ \A p \in Procs : WF_vars(TaskFireHeld(p))
    /\ WF_vars(\E u \in BagToSet(detached) : TaskFireDetached(u))
    /\ \A p \in Procs : WF_vars(Resume(p))

(* The store before any timer has been started: every timestamp the behaviour
   meets was installed by start_ephemeral_timer or by start_ephemeral_timers. *)
InitLive ==
    /\ InitEph
    /\ \A m \in MsgIds : msgs[m].ephemeral_timestamp = 0

SpecLive == InitLive /\ [][NextEph]_vars /\ Fairness

\* C17: whenever a message outside the trash chat has ephemeral_timestamp
\* T > 0, eventually the message is in the trash chat or a MsgsChanged event is
\* emitted at a clock value of T + 1 or later.
C17_DueMessageWakesUI ==
    \A m \in MsgIds : \A T \in 1..(MaxNow - 1) :
        []((msgs[m].chat_id # DC_CHAT_ID_TRASH /\ msgs[m].ephemeral_timestamp = T)
            => <>(msgs[m].chat_id = DC_CHAT_ID_TRASH \/ hist.woken >= T + 1))

\* C22: if schedule_ephemeral_task cancels a task whose sleep has elapsed and
\* whose MsgsChanged event has not been emitted, and the message the task was
\* armed for is still live, then a MsgsChanged event is emitted afterwards, by
\* that call, by the task it spawns or by a later call, unless the message
\* leaves the live rows first.
C22_NoWakeUpLostToCancel ==
    (hist.owed # 0) ~> (hist.owed = 0 \/ ArmedFor(msgs, hist.owed) = {})

-----------------------------------------------------------------------------
(* The two stages of a deletion: delete_expired_messages and the selection of
   IMAP deletion jobs on the same store *)

(* Live rows of a normal chat, with or without a server copy, whose timer is
   not started, has expired or is still running. *)
InitDelRows == {NewMsg(NormalChatId, 2, "InSeen", u, e) : u \in {0, 1}, e \in {0, 1, 3}}

InitDel ==
    /\ msgs \in [MsgIds -> InitDelRows]
    /\ now = 1
    /\ delete_device_after \in {NoneV, 1}
    /\ delete_server_after = NoneV
    /\ InitIdle
    /\ InitNoJobs
    /\ InitNoNet

NextDel ==
    \/ \E p \in Procs : SweepPassA(p)
    \/ \E p \in Procs : SweepConfig(p)
    \/ \E p \in Procs : SweepPassB(p)
    \/ \E p \in Procs : SweepConfigFail(p)
    \/ \E p \in Procs : SweepPassBFail(p)
    \/ \E p \in Procs : SchedQuery(p)
    \/ \E p \in Procs : SchedTake(p)
    \/ \E p \in Procs : SchedSpawn(p)
    \/ \E p \in Procs : SchedStore(p)
    \/ TaskFireSlot
    \/ \E p \in Procs : TaskFireHeld(p)
    \/ \E u \in BagToSet(detached) : TaskFireDetached(u)
    \/ \E p \in Procs : LoadStart(p)
    \/ \E p \in Procs : LoadQuery(p)
    \/ \E p \in Procs : LoadNone(p)
    \/ \E p \in Procs : SaveJob(p)
    \/ \E m \in MsgIds : ExecuteJob(m)
    \/ Tick

SpecDel == InitDel /\ [][NextDel]_vars

(* The rows pass A has redacted and whose server copy no job targets. *)
RedactedOnServer(ms, js) ==
    {m \in MsgIds : /\ ms[m].chat_id = DC_CHAT_ID_TRASH /\ PayloadCleared(ms[m])
                    /\ ms[m].server_uid # 0
                    /\ ~JobQueued(js, m)}

\* C24: pass A leaves ephemeral_timestamp and server_uid of every row
\* unchanged, so a row redacted by pass A with server_uid # 0 and no
\* DeleteMsgOnImap job is among the rows load_imap_deletion_msgid selects, and a
\* call made then does not return None.
C24_PassAKeepsServerTarget ==
    /\ [](RedactedOnServer(msgs, jobs) \subseteq
            LoadCandidates(msgs, jobs, ServerThreshold(now, delete_server_after), now))
    /\ [][\A p \in Procs :
            /\ PassAStep(p) =>
                  \A m \in MsgIds :
                      /\ msgs'[m].ephemeral_timestamp = msgs[m].ephemeral_timestamp
                      /\ msgs'[m].server_uid = msgs[m].server_uid
            /\ (LoadQueryStep(p) /\ loc[p].now = now /\ RedactedOnServer(msgs, jobs) # {}) =>
                  loc'[p].ret # NoneV]_vars

\* A load_imap_deletion_msgid call has returned a row that pass A had redacted
\* and that has its server copy.
C24_Witness ==
    \E p \in Procs :
        /\ pc[p] = "loaded" /\ loc[p].ret # NoneV
        /\ msgs[loc[p].ret].chat_id = DC_CHAT_ID_TRASH
        /\ PayloadCleared(msgs[loc[p].ret])
        /\ msgs[loc[p].ret].server_uid # 0

(* The call of caller p returns message m, selected by its ephemeral_timestamp
   and not by its age. *)
YieldsExpired(p, m) ==
    /\ LoadQueryStep(p) /\ loc'[p].ret = m
    /\ ~(msgs[m].timestamp < loc[p].threshold)

\* C28 as stated: load_imap_deletion_msgid yields a message on account of its
\* ephemeral_timestamp only after delete_expired_messages has moved it to the
\* trash chat, for every interleaving of the sweep and the job selection.
C28_ServerDeletionAfterRedaction ==
    [][\A p \in Procs, m \in MsgIds :
          YieldsExpired(p, m) => msgs[m].chat_id = DC_CHAT_ID_TRASH]_vars

\* C28 as amended: load_imap_deletion_msgid yields a message on account of its
\* ephemeral_timestamp only if the message is in the trash chat or meets the
\* pass-A condition at the clock value the call read: never before its local
\* redaction is due, but possibly before delete_expired_messages has run.
C28_ServerDeletionOnceRedactionDue ==
    [][\A p \in Procs, m \in MsgIds :
          YieldsExpired(p, m) =>
              \/ msgs[m].chat_id = DC_CHAT_ID_TRASH
              \/ PassAMatches(msgs[m], loc[p].now)]_vars

\* A call has returned an expired message that delete_expired_messages has not
\* moved to the trash chat yet.
C28_Witness ==
    \E p \in Procs :
        /\ pc[p] = "loaded" /\ loc[p].ret # NoneV
        /\ msgs[loc[p].ret].chat_id # DC_CHAT_ID_TRASH
        /\ PassAMatches(msgs[loc[p].ret], loc[p].now)

-----------------------------------------------------------------------------
(* The pure functions of Timer: the integer conversions and the rendering of
   the "timer changed" message *)

(* The durations at which stock_ephemeral_timer_changed changes its template,
   and the durations the conversions and the rendering are applied to: every
   duration within ProbeRadius of 0 and of a boundary, and the durations of
   test_stock_ephemeral_messages. *)
ProbeRadius == 30

Boundaries == {60, 3600, 86400, 604800}

TestDurations == {1, 30, 60, 90, 1800, 3600, 5400, 7200, 86400, 172800, 604800, 2419200}

DurationProbes ==
    (0..ProbeRadius)
    \cup UNION {(b - ProbeRadius)..(b + ProbeRadius) : b \in Boundaries}
    \cup TestDurations

(* (f64::from(duration) / unit).round(): halves round away from zero; the unit
   is even, so a half is exact. *)
RoundDiv(d, unit) == (d + unit \div 2) \div unit

NoText == [template |-> "none", arg |-> NoneV]

Text(template, arg) == [template |-> template, arg |-> arg]

(* A rendering whose seconds range reaches one second too far. *)
stock_ephemeral_timer_changed_late(t) ==
    IF t.tag = "Disabled" THEN Text("disabled", NoneV)
    ELSE LET d == t.duration IN
         IF d <= 60 THEN Text("seconds", to_u32(t))
         ELSE IF d <= 3599 THEN Text("minutes", RoundDiv(d, 6))
         ELSE IF d = 3600 THEN Text("hour", NoneV)
         ELSE IF d <= 86399 THEN Text("hours", RoundDiv(d, 360))
         ELSE IF d = 86400 THEN Text("day", NoneV)
         ELSE IF d <= 604799 THEN Text("days", RoundDiv(d, 8640))
         ELSE IF d = 604800 THEN Text("week", NoneV)
         ELSE Text("weeks", RoundDiv(d, 60480))

(* stock_ephemeral_timer_changed: the stock string chosen and its argument,
   the seconds as they are, the other units in tenths. *)
stock_ephemeral_timer_changed(t) ==
    IF t.tag = "Disabled" THEN Text("disabled", NoneV)
    ELSE LET d == t.duration IN
         IF d \in 0..59 THEN Text("seconds", to_u32(t))
         ELSE IF d = 60 THEN Text("minute", NoneV)
         ELSE IF d \in 61..3599 THEN Text("minutes", RoundDiv(d, 6))
         ELSE IF d = 3600 THEN Text("hour", NoneV)
         ELSE IF d \in 3601..86399 THEN Text("hours", RoundDiv(d, 360))
         ELSE IF d = 86400 THEN Text("day", NoneV)
         ELSE IF d \in 86401..604799 THEN Text("days", RoundDiv(d, 8640))
         ELSE IF d = 604800 THEN Text("week", NoneV)
         ELSE Text("weeks", RoundDiv(d, 60480))

InitPure ==
    /\ hist \in {[n |-> n, timer |-> NoTimer, back |-> NoneV, text |-> NoText] :
                   n \in DurationProbes}
    /\ msgs = [m \in MsgIds |-> NewMsg(NormalChatId, 0, "InFresh", 0, 0)]
    /\ now = 1
    /\ delete_device_after = NoneV
    /\ delete_server_after = NoneV
    /\ InitIdle
    /\ InitNoJobs
    /\ chats = << >>
    /\ net = {}

FromU32 ==
    /\ hist.timer = NoTimer
    /\ hist' = [hist EXCEPT !.timer = from_u32(hist.n)]
    /\ UNCHANGED <<msgs, now, delete_device_after, delete_server_after, pc, loc, ops,
                   ephemeral_task, detached, events, jobs, chats, net>>

ToU32 ==
    /\ hist.timer # NoTimer
    /\ hist.back = NoneV
    /\ hist' = [hist EXCEPT !.back = to_u32(hist.timer)]
    /\ UNCHANGED <<msgs, now, delete_device_after, delete_server_after, pc, loc, ops,
                   ephemeral_task, detached, events, jobs, chats, net>>

StockEphemeralTimerChanged ==
    /\ hist.timer # NoTimer
    /\ hist.text = NoText
    /\ hist' = [hist EXCEPT !.text = stock_ephemeral_timer_changed(hist.timer)]
    /\ UNCHANGED <<msgs, now, delete_device_after, delete_server_after, pc, loc, ops,
                   ephemeral_task, detached, events, jobs, chats, net>>

NextPure == FromU32 \/ ToU32 \/ StockEphemeralTimerChanged

SpecPure == InitPure /\ [][NextPure]_vars

\* C18: from_u32(0) is Disabled, from_u32(n) is Enabled{n} for n > 0, and
\* to_u32(from_u32(n)) = n.
C18_IntegerRoundTrip ==
    /\ hist.timer # NoTimer =>
          /\ hist.n = 0 => hist.timer = Disabled
          /\ hist.n > 0 => hist.timer = Enabled(hist.n)
    /\ hist.back # NoneV => hist.back = hist.n

\* 0 and a duration above 0 went through from_u32 and back through to_u32.
C18_Witness ==
    /\ hist.back # NoneV
    /\ hist.n = 0 \/ hist.n = 604800

\* C19: stock_ephemeral_timer_changed takes its template from the range of
\* the duration: Disabled, 1..59 seconds, 60 one minute, 61..3599 minutes,
\* 3600 one hour, 3601..86399 hours, 86400 one day, 86401..604799 days, 604800
\* one week, weeks above.
C19_TemplateByRange ==
    hist.text # NoText =>
        LET d == hist.timer.duration IN
        hist.text.template =
            CASE hist.timer = Disabled -> "disabled"
              [] hist.timer # Disabled /\ d \in 1..59 -> "seconds"
              [] hist.timer # Disabled /\ d = 60 -> "minute"
              [] hist.timer # Disabled /\ d \in 61..3599 -> "minutes"
              [] hist.timer # Disabled /\ d = 3600 -> "hour"
              [] hist.timer # Disabled /\ d \in 3601..86399 -> "hours"
              [] hist.timer # Disabled /\ d = 86400 -> "day"
              [] hist.timer # Disabled /\ d \in 86401..604799 -> "days"
              [] hist.timer # Disabled /\ d = 604800 -> "week"
              [] hist.timer # Disabled /\ d > 604800 -> "weeks"

\* The first duration rendered in weeks.
C19_Witness ==
    /\ hist.text # NoText
    /\ hist.n = 604801
    /\ hist.text.template = "weeks"

====
